---- MODULE Spec2Model ----
(***************************************************************************)
(* ShopHub: the cart, the checkout and the row policies of the storefront. *)
(*                                                                         *)
(* The store is the five relations of the migration, of which the model    *)
(* keeps products, cart_items, orders and order_items, with their CHECK,   *)
(* UNIQUE and FOREIGN KEY constraints and their row-level policies.  The   *)
(* clients are browser sessions running the React components: every await  *)
(* of a handler is one step, made of the request executing at the store    *)
(* and of the handler resuming up to its next await.                       *)
(*                                                                         *)
(* Prices are whole numbers (cents); the rounding of the client's floating *)
(* point arithmetic is not modelled.                                       *)
(***************************************************************************)
EXTENDS Integers, FiniteSets, Sequences, TLC

\* ---------------------------------------------------------------- bounds
MaxCalls == 5        \* user events of the session in a run
MaxRequests == 4     \* direct requests in a run of the store alone
MaxQty == 3          \* largest cart quantity an add may reach
MaxDelta == 2        \* largest quantity chosen in the product detail view
MaxTerm == 2         \* longest search term typed in the catalog

Users == {"u1", "u2"}
Sessions == {"s1"}
Products == {"p1", "p2"}
Prices == {2, 3}
Customers == {"c1"}

VARIABLES
    products,      \* table products: rows [id, price, stock]
    cart_items,    \* table cart_items: rows [id, user_id, product_id, quantity]
    orders,        \* table orders: rows [id, user_id, total, status, customer]
    order_items,   \* table order_items: rows [id, order_id, product_id, quantity, price]
    user,          \* useAuth().user of every session
    view,          \* which modal of App is open in every session
    shoppingCart,  \* state of the ShoppingCart component of every session
    checkout,      \* state of the Checkout component of every session
    adds,          \* handleAddToCart invocations between their read and their write
    places,        \* handlePlaceOrder invocations in flight
    calls,         \* number of user events so far (names the rows they create)
    seqAdds,       \* history: per (user, product), the sum of the adds run one at a time
    lastReq,       \* history: the last direct request and the rows it returned
    showAuthModal, \* the sign-in prompt of ProductCatalog / ProductDetail, per session
    cartItemCount, \* App's badge count, per session
    countFetches,  \* updateCartCount invocations awaiting their select, per session and caller
    ordersPage,    \* state of the Orders component of every session
    lastCall,      \* history: the last call of a cart or checkout handler
    catalog,       \* state of the ProductCatalog component of every session
    selectedProduct, \* App's selectedProduct: the product of the detail view
    productDetail  \* state of the ProductDetail component of every session

dbVars == <<products, cart_items, orders, order_items>>
uiVars == <<user, view, shoppingCart, checkout>>
appVars == <<showAuthModal, cartItemCount, countFetches, ordersPage>>
pageVars == <<catalog, selectedProduct, productDetail>>
vars == <<products, cart_items, orders, order_items, user, view, shoppingCart,
          checkout, adds, places, calls, seqAdds, lastReq, showAuthModal,
          cartItemCount, countFetches, ordersPage, lastCall, catalog,
          selectedProduct, productDetail>>

NULL == "null"
\* selectedProduct is null: the detail view renders nothing
NoProduct == [id |-> NULL, name |-> <<>>, description |-> <<>>,
              category_id |-> NULL, stock |-> 0]
Tainted == 0 - 1

\* ------------------------------------------------------- row policies
\* auth.uid() = user_id, TO authenticated
CartSelectUsing(uid, row) == uid # NULL /\ uid = row.user_id
CartInsertCheck(uid, row) == uid # NULL /\ uid = row.user_id
CartUpdateUsingOpen(uid, row) == uid # NULL
CartUpdateUsing(uid, row) == uid # NULL /\ uid = row.user_id
CartDeleteUsing(uid, row) == uid # NULL /\ uid = row.user_id
OrdersSelectUsing(uid, row) == uid # NULL /\ uid = row.user_id
OrdersInsertCheck(uid, row) == uid # NULL /\ uid = row.user_id
\* RLS is enabled on orders and no UPDATE or DELETE policy exists: denied
OrdersWriteUsing(uid, row) == FALSE
\* EXISTS (SELECT 1 FROM orders WHERE orders.id = order_items.order_id
\*         AND orders.user_id = auth.uid())
OrderItemsSelectUsing(uid, row) ==
    uid # NULL /\ \E o \in orders : o.id = row.order_id /\ o.user_id = uid
OrderItemsInsertCheckOpen(uid, row) == uid # NULL
OrderItemsInsertCheck(uid, row) ==
    uid # NULL /\ \E o \in orders : o.id = row.order_id /\ o.user_id = uid

\* ------------------------------------------------------- statements
ProductIds == {p.id : p \in products}
ProductRow(pid) == CHOOSE p \in products : p.id = pid

\* select ... from cart_items where user_id = u
SelectCartOfUser(uid, u) ==
    {r \in cart_items : CartSelectUsing(uid, r) /\ r.user_id = u}
\* select ... from cart_items where user_id = u and product_id = p (maybeSingle)
SelectCartLine(uid, u, p) ==
    {r \in SelectCartOfUser(uid, u) : r.product_id = p}
\* select ... from cart_items where id = id
SelectCartById(uid, id) ==
    {r \in cart_items : CartSelectUsing(uid, r) /\ r.id = id}

\* insert into cart_items: the policy's WITH CHECK, CHECK (quantity > 0), the
\* foreign key to products and UNIQUE (user_id, product_id)
CartInsertNoUnique(uid, row) ==
    IF /\ CartInsertCheck(uid, row)
       /\ row.quantity > 0
       /\ row.product_id \in ProductIds
    THEN cart_items \cup {row}
    ELSE cart_items
CartInsert(uid, row) ==
    IF /\ CartInsertCheck(uid, row)
       /\ row.quantity > 0
       /\ row.product_id \in ProductIds
       /\ \A r \in cart_items :
            ~(r.user_id = row.user_id /\ r.product_id = row.product_id)
    THEN cart_items \cup {row}
    ELSE cart_items

\* update cart_items set quantity = q where id = id
CartUpdateTargets(uid, id) ==
    {r \in cart_items : CartUpdateUsing(uid, r) /\ r.id = id}
CartUpdate(uid, id, q) ==
    IF q > 0
    THEN {IF r \in CartUpdateTargets(uid, id) THEN [r EXCEPT !.quantity = q] ELSE r :
            r \in cart_items}
    ELSE cart_items

\* delete from cart_items where id = id / where user_id = u
CartDeleteByIdOrAll(uid, id) ==
    IF \E r \in cart_items : r.id = id
    THEN {r \in cart_items : ~(CartDeleteUsing(uid, r) /\ r.id = id)}
    ELSE {r \in cart_items : ~CartDeleteUsing(uid, r)}
CartDeleteById(uid, id) ==
    {r \in cart_items : ~(CartDeleteUsing(uid, r) /\ r.id = id)}
CartDeleteOfUser(uid, u) ==
    {r \in cart_items : ~(CartDeleteUsing(uid, r) /\ r.user_id = u)}

\* insert into orders ... select().single(): CHECK (total >= 0)
OrdersInsert(uid, row) ==
    IF OrdersInsertCheck(uid, row) /\ row.total >= 0
    THEN orders \cup {row}
    ELSE orders
SelectOrderById(uid, id) ==
    {o \in orders : OrdersSelectUsing(uid, o) /\ o.id = id}
OrdersUpdateStatus(uid, id, st) ==
    {IF OrdersWriteUsing(uid, o) /\ o.id = id THEN [o EXCEPT !.status = st] ELSE o :
        o \in orders}
OrdersDeleteById(uid, id) ==
    {o \in orders : ~(OrdersWriteUsing(uid, o) /\ o.id = id)}

\* insert into order_items (one statement for all the rows: all or none)
OrderItemRowOk(uid, row) ==
    /\ OrderItemsInsertCheck(uid, row)
    /\ row.quantity > 0
    /\ row.price >= 0
    /\ \E o \in orders : o.id = row.order_id
    /\ row.product_id \in ProductIds \cup {NULL}
OrderItemsInsert(uid, rows) ==
    IF \A row \in rows : OrderItemRowOk(uid, row)
    THEN order_items \cup rows
    ELSE order_items
SelectOrderItemsOf(uid, oid) ==
    {l \in order_items : OrderItemsSelectUsing(uid, l) /\ l.order_id = oid}

\* ------------------------------------------------------- client helpers
RECURSIVE SumSubtotals(_)
\* cartItems.reduce((sum, item) => sum + item.product.price * item.quantity, 0)
SumSubtotals(items) ==
    IF items = {} THEN 0
    ELSE LET i == CHOOSE x \in items : TRUE
         IN  i.price * i.quantity + SumSubtotals(items \ {i})

\* the rows of a cart select joined with products(id, name, price, stock)
JoinProducts(rows) ==
    {[id |-> r.id, quantity |-> r.quantity, product_id |-> r.product_id,
      price |-> ProductRow(r.product_id).price,
      stock |-> ProductRow(r.product_id).stock] : r \in rows}

LineOf(cart, k) == {r \in cart : r.user_id = k[1] /\ r.product_id = k[2]}
AddsInFlight(k) == {a \in adds : a.uid = k[1] /\ a.product_id = k[2]}

\* history: what an operation other than an add leaves of the running sums
SeqAfter(cart2) ==
    [k \in Users \X Products |->
        IF LineOf(cart_items, k) = LineOf(cart2, k) THEN seqAdds[k]
        ELSE IF LineOf(cart2, k) = {} /\ AddsInFlight(k) = {} THEN 0
        ELSE Tainted]

\* window.dispatchEvent(new Event('cart-updated')): ShoppingCart's listener
\* runs fetchCartItems(), which sets loading
CartUpdatedEvent(s, sc) ==
    IF user[s] # NULL THEN [sc EXCEPT ![s].loading = TRUE] ELSE sc

\* fetchCartItems() of ShoppingCart: if (!user) return; setLoading(true)
FetchCartItems(s, sc) ==
    IF user[s] # NULL THEN [sc EXCEPT ![s].loading = TRUE] ELSE sc

\* App's listener of the same event runs updateCartCount(): if (!user) return;
\* otherwise one more select of the quantities is awaited
UpdateCartCount(s) ==
    IF user[s] # NULL THEN [countFetches EXCEPT ![s][user[s]] = @ + 1]
    ELSE countFetches

\* history: handler op is called by session s with these arguments
Call(op, s, product, id, quantity) ==
    [call |-> calls + 1, op |-> op, uid |-> user[s], product |-> product,
     id |-> id, quantity |-> quantity]

\* ------------------------------------------------------- product catalog
\* Texts are sequences of letters; a text column that is null (description
\* text DEFAULT '' has no NOT NULL) is written NullText.
Letters == {"a", "A", "b", "B"}
NullText == <<NULL>>

RECURSIVE Strings(_)
Strings(n) ==
    IF n = 0 THEN {<<>>}
    ELSE Strings(n - 1) \cup {Append(t, c) : t \in Strings(n - 1), c \in Letters}

\* String.prototype.toLowerCase
LowerOf(c) == IF c = "A" THEN "a" ELSE IF c = "B" THEN "b" ELSE c
toLowerCase(str) == [i \in 1..Len(str) |-> LowerOf(str[i])]

\* String.prototype.includes
includes(str, term) ==
    \E i \in 0..(Len(str) - Len(term)) : SubSeq(str, i + 1, i + Len(term)) = term

\* selectedCategory === 'all' || product.category_id === selectedCategory
matchesCategory(product, selectedCategory) ==
    selectedCategory = "all" \/ product.category_id = selectedCategory

\* product.name.toLowerCase().includes(...) || product.description
\* .toLowerCase().includes(...): the right operand is evaluated only when the
\* left one is false
NameMatches(product, searchQuery) ==
    includes(toLowerCase(product.name), toLowerCase(searchQuery))
matchesSearch(product, searchQuery) ==
    \/ NameMatches(product, searchQuery)
    \/ includes(toLowerCase(product.description), toLowerCase(searchQuery))

\* product.description.toLowerCase() on null is a TypeError
FilterThrows(product, searchQuery) ==
    ~NameMatches(product, searchQuery) /\ product.description = NullText

\* the filter callback throws on some product: the render of ProductCatalog
\* throws and, with no error boundary, React unmounts the tree
RenderThrows(s) ==
    \E product \in catalog[s].products :
        FilterThrows(product, catalog[s].searchQuery)

\* products.filter(product => matchesCategory && matchesSearch)
filteredProducts(s) ==
    {product \in catalog[s].products :
        /\ matchesCategory(product, catalog[s].selectedCategory)
        /\ matchesSearch(product, catalog[s].searchQuery)}

\* the cards of the grid: filteredProducts.map(...)
ShownProducts(s) == IF RenderThrows(s) THEN {} ELSE filteredProducts(s)

\* onChange of the search box: setSearchQuery(e.target.value)
SetSearchQuery(s, q) ==
    /\ ~RenderThrows(s)
    /\ q # catalog[s].searchQuery
    /\ catalog' = [catalog EXCEPT ![s].searchQuery = q]
    /\ UNCHANGED <<dbVars, uiVars, adds, places, calls, seqAdds, lastReq, appVars,
                   lastCall, selectedProduct, productDetail>>

\* the category buttons: setSelectedCategory('all') / (category.id)
SetSelectedCategory(s, c) ==
    /\ ~RenderThrows(s)
    /\ c # catalog[s].selectedCategory
    /\ catalog' = [catalog EXCEPT ![s].selectedCategory = c]
    /\ UNCHANGED <<dbVars, uiVars, adds, places, calls, seqAdds, lastReq, appVars,
                   lastCall, selectedProduct, productDetail>>

\* ------------------------------------------------------- add to cart
AddToCartQuantityOverwrite(existingQuantity, quantity) == quantity
AddToCartQuantity(existingQuantity, quantity) == existingQuantity + quantity

\* if (!user) of handleAddToCart
NoUserAddToCartIgnored(s) == FALSE
NoUserAddToCart(s) == user[s] = NULL

\* handleAddToCart up to the answer of its select: the invocation is in flight.
\* raced is history: another add wrote the same (user, product) line since
\* this one read it.  detail: the handler is ProductDetail's, which ends with
\* onClose().
AddToCartBegin(s, p, n) ==
    LET uid == user[s]
        existing == SelectCartLine(uid, uid, p)
        k == <<uid, p>>
    IN  /\ ~NoUserAddToCart(s)
        /\ calls < MaxCalls
        /\ \A e \in existing : e.quantity + n <= MaxQty
        /\ n <= MaxQty
        /\ calls' = calls + 1
        /\ adds' = adds \cup
             {[call |-> calls + 1, sess |-> s, uid |-> uid, product_id |-> p,
               existing |-> {[id |-> e.id, quantity |-> e.quantity] : e \in existing},
               quantity |-> n, raced |-> FALSE,
               detail |-> selectedProduct[s] # NoProduct]}
        /\ seqAdds' = IF AddsInFlight(k) # {}
                      THEN [seqAdds EXCEPT ![k] = Tainted]
                      ELSE seqAdds
        /\ lastCall' = Call("addToCart", s, p, 0, n)
        /\ UNCHANGED <<pageVars, dbVars, uiVars, places, lastReq, appVars>>

\* if (!user) { setShowAuthModal(true); return; }
AddToCartNoUser(s, p, n) ==
    /\ NoUserAddToCart(s)
    /\ calls < MaxCalls
    /\ calls' = calls + 1
    /\ showAuthModal' = [showAuthModal EXCEPT ![s] = TRUE]
    /\ lastCall' = Call("addToCart", s, p, 0, n)
    /\ UNCHANGED <<pageVars, dbVars, uiVars, adds, places, seqAdds, lastReq, cartItemCount,
                   countFetches, ordersPage>>

handleAddToCart(s, p, n) ==
    \/ AddToCartNoUser(s, p, n)
    \/ AddToCartBegin(s, p, n)

\* ProductCatalog: the card's button adds one
CatalogAddToCart(s, p) ==
    /\ view[s] = "catalog"
    /\ handleAddToCart(s, p, 1)

\* ProductDetail seen from the cart: the view is opened on any product, its
\* selector is set, and the button adds the selected quantity
DetailAddToCart(s, p, n) ==
    /\ view[s] = "catalog"
    /\ n > 1
    /\ handleAddToCart(s, p, n)

\* the update or the insert of handleAddToCart, then the event; ProductDetail's
\* handler then calls onClose(): setSelectedProduct(null)
AddToCartWrite(a) ==
    LET k == <<a.uid, a.product_id>>
        cart2 ==
            IF a.existing # {}
            THEN LET e == CHOOSE x \in a.existing : TRUE
                 IN  CartUpdate(a.uid, e.id, AddToCartQuantity(e.quantity, a.quantity))
            ELSE CartInsert(a.uid, [id |-> a.call, user_id |-> a.uid,
                                    product_id |-> a.product_id,
                                    quantity |-> a.quantity])
    IN  /\ cart_items' = cart2
        /\ adds' = {IF b \in AddsInFlight(k) THEN [b EXCEPT !.raced = TRUE] ELSE b :
                      b \in adds \ {a}}
        /\ shoppingCart' = CartUpdatedEvent(a.sess, shoppingCart)
        /\ countFetches' = UpdateCartCount(a.sess)
        /\ seqAdds' = [seqAdds EXCEPT
                          ![k] = IF @ = Tainted THEN @ ELSE @ + a.quantity]
        /\ selectedProduct' = IF a.detail
                              THEN [selectedProduct EXCEPT ![a.sess] = NoProduct]
                              ELSE selectedProduct
        /\ UNCHANGED <<products, orders, order_items, user, view, checkout,
                       places, calls, lastReq, showAuthModal, cartItemCount,
                       ordersPage, lastCall, catalog, productDetail>>

\* ------------------------------------------------------- product detail
\* onProductClick(product) on a card of the grid: setSelectedProduct(product).
\* ProductDetail stays mounted, so its quantity is the one it had.
OpenDetail(s, product) ==
    /\ view[s] = "catalog"
    /\ selectedProduct[s] = NoProduct
    /\ product \in ShownProducts(s)
    /\ calls < MaxCalls
    /\ calls' = calls + 1
    /\ selectedProduct' = [selectedProduct EXCEPT ![s] = product]
    /\ UNCHANGED <<dbVars, uiVars, adds, places, seqAdds, lastReq, appVars,
                   lastCall, catalog, productDetail>>

\* the X of the detail view: onClose(), setSelectedProduct(null)
CloseDetail(s) ==
    /\ selectedProduct[s] # NoProduct
    /\ calls < MaxCalls
    /\ calls' = calls + 1
    /\ selectedProduct' = [selectedProduct EXCEPT ![s] = NoProduct]
    /\ UNCHANGED <<dbVars, uiVars, adds, places, seqAdds, lastReq, appVars,
                   lastCall, catalog, productDetail>>

Min(a, b) == IF a < b THEN a ELSE b
Max(a, b) == IF a > b THEN a ELSE b

\* the selector, rendered when product.stock > 0
SetQuantity(s, q) ==
    /\ selectedProduct[s] # NoProduct
    /\ selectedProduct[s].stock > 0
    /\ calls < MaxCalls
    /\ calls' = calls + 1
    /\ productDetail' = [productDetail EXCEPT ![s].quantity = q]
    /\ UNCHANGED <<dbVars, uiVars, adds, places, seqAdds, lastReq, appVars,
                   lastCall, catalog, selectedProduct>>

\* setQuantity(Math.max(1, quantity - 1))
DetailMinus(s) == SetQuantity(s, Max(1, productDetail[s].quantity - 1))

\* setQuantity(Math.min(product.stock, quantity + 1))
DetailPlus(s) ==
    SetQuantity(s, Min(selectedProduct[s].stock, productDetail[s].quantity + 1))

\* setQuantity(Math.max(1, Math.min(product.stock, parseInt(e.target.value) || 1))):
\* v is the parsed number; NaN gives 1 as 0 does
DetailInput(s, v) ==
    SetQuantity(s, Max(1, Min(selectedProduct[s].stock, IF v = 0 THEN 1 ELSE v)))

\* the Add to Cart button of the detail view, rendered when product.stock > 0:
\* handleAddToCart with the product shown and the quantity of the selector
DetailViewAddToCart(s) ==
    /\ selectedProduct[s] # NoProduct
    /\ selectedProduct[s].stock > 0
    /\ handleAddToCart(s, selectedProduct[s].id, productDetail[s].quantity)

\* ------------------------------------------------------- shopping cart
\* Header's cart button: showCart, and the effect fetches
OpenCart(s) ==
    /\ view[s] = "catalog"
    /\ user[s] # NULL
    /\ calls < MaxCalls
    /\ calls' = calls + 1
    /\ view' = [view EXCEPT ![s] = "cart"]
    /\ shoppingCart' = [shoppingCart EXCEPT ![s].loading = TRUE]
    /\ UNCHANGED <<pageVars, dbVars, user, checkout, adds, places, seqAdds, lastReq, appVars, lastCall>>

CloseCart(s) ==
    /\ view[s] = "cart"
    /\ calls < MaxCalls
    /\ calls' = calls + 1
    /\ view' = [view EXCEPT ![s] = "catalog"]
    /\ UNCHANGED <<pageVars, dbVars, user, shoppingCart, checkout, adds, places,
                   seqAdds, lastReq, appVars, lastCall>>

\* ShoppingCart.fetchCartItems: the select and setCartItems(data)
CartFetched(s) ==
    /\ shoppingCart[s].loading
    /\ shoppingCart' = [shoppingCart EXCEPT
          ![s] = [cartItems |-> JoinProducts(SelectCartOfUser(user[s], user[s])),
                  loading |-> FALSE]]
    /\ UNCHANGED <<pageVars, dbVars, user, view, checkout, adds, places, calls, seqAdds,
                   lastReq, appVars, lastCall>>

\* if (newQuantity < 1) return;
QuantityTooSmallIgnored(newQuantity) == FALSE
QuantityTooSmall(newQuantity) == newQuantity < 1

\* updateQuantity(itemId, newQuantity)
UpdateQuantity(s, item, newQuantity) ==
    /\ calls < MaxCalls
    /\ \/ /\ QuantityTooSmall(newQuantity)
          /\ UNCHANGED <<cart_items, shoppingCart, seqAdds>>
       \/ /\ ~QuantityTooSmall(newQuantity)
          /\ cart_items' = CartUpdate(user[s], item.id, newQuantity)
          /\ shoppingCart' = FetchCartItems(s, shoppingCart)
          /\ seqAdds' = SeqAfter(CartUpdate(user[s], item.id, newQuantity))
    /\ calls' = calls + 1
    /\ lastCall' = Call("updateQuantity", s, NULL, item.id, newQuantity)
    /\ UNCHANGED <<pageVars, products, orders, order_items, user, view, checkout, adds,
                   places, lastReq, appVars>>

\* the minus and plus buttons of a line of the rendered list
ClickMinus(s, item) ==
    /\ view[s] = "cart"
    /\ ~shoppingCart[s].loading
    /\ item \in shoppingCart[s].cartItems
    /\ UpdateQuantity(s, item, item.quantity - 1)

ClickPlus(s, item) ==
    /\ view[s] = "cart"
    /\ ~shoppingCart[s].loading
    /\ item \in shoppingCart[s].cartItems
    /\ item.quantity < item.stock
    /\ UpdateQuantity(s, item, item.quantity + 1)

\* removeItem(itemId)
RemoveItem(s, item) ==
    /\ view[s] = "cart"
    /\ ~shoppingCart[s].loading
    /\ item \in shoppingCart[s].cartItems
    /\ calls < MaxCalls
    /\ calls' = calls + 1
    /\ cart_items' = CartDeleteById(user[s], item.id)
    /\ shoppingCart' = FetchCartItems(s, shoppingCart)
    /\ countFetches' = UpdateCartCount(s)
    /\ seqAdds' = SeqAfter(CartDeleteById(user[s], item.id))
    /\ lastCall' = Call("removeItem", s, NULL, item.id, 0)
    /\ UNCHANGED <<pageVars, products, orders, order_items, user, view, checkout, adds,
                   places, lastReq, showAuthModal, cartItemCount, ordersPage>>

\* "Proceed to Checkout", rendered when cartItems.length > 0: onClose(),
\* onCheckout(), and Checkout's effect fetches
ProceedToCheckout(s) ==
    /\ view[s] = "cart"
    /\ shoppingCart[s].cartItems # {}
    /\ calls < MaxCalls
    /\ calls' = calls + 1
    /\ view' = [view EXCEPT ![s] = "checkout"]
    /\ checkout' = IF user[s] # NULL
                   THEN [checkout EXCEPT ![s].fetching = TRUE]
                   ELSE checkout
    /\ UNCHANGED <<pageVars, dbVars, user, shoppingCart, adds, places, seqAdds,
                   lastReq, appVars, lastCall>>

\* ------------------------------------------------------- checkout
\* Checkout.fetchCartItems: the select and setCartItems(data)
CheckoutFetched(s) ==
    /\ checkout[s].fetching
    /\ checkout' = [checkout EXCEPT
          ![s].cartItems = JoinProducts(SelectCartOfUser(user[s], user[s])),
          ![s].fetching = FALSE]
    /\ UNCHANGED <<pageVars, dbVars, user, view, shoppingCart, adds, places, calls, seqAdds,
                   lastReq, appVars, lastCall>>

\* the X of the checkout form
CloseCheckout(s) ==
    /\ view[s] = "checkout"
    /\ ~checkout[s].orderPlaced
    /\ calls < MaxCalls
    /\ calls' = calls + 1
    /\ view' = [view EXCEPT ![s] = "catalog"]
    /\ UNCHANGED <<pageVars, dbVars, user, shoppingCart, checkout, adds, places,
                   seqAdds, lastReq, appVars, lastCall>>

\* the rows handlePlaceOrder maps the rendered cartItems to
OrderItemsOfPastOrder(r) ==
    {[id |-> <<r.call, i.id>>, order_id |-> 0 - 1, product_id |-> i.product_id,
      quantity |-> i.quantity, price |-> i.price] : i \in r.cartItems}
OrderItemsOf(r) ==
    {[id |-> <<r.call, i.id>>, order_id |-> r.order, product_id |-> i.product_id,
      quantity |-> i.quantity, price |-> i.price] : i \in r.cartItems}

\* submit of the form: handlePlaceOrder with the cartItems and total of the
\* render it was created in; setLoading(true) disables the button.
\* if (!user) of handlePlaceOrder
NoUserPlaceOrderIgnored(s) == FALSE
NoUserPlaceOrder(s) == user[s] = NULL

\* cartAtCall and pricesAtCall are history: the caller's lines and the
\* products' prices in the store at the call.
PlaceOrderSubmit(s, c) ==
    /\ view[s] = "checkout"
    /\ ~checkout[s].orderPlaced
    /\ ~checkout[s].loading
    /\ ~NoUserPlaceOrder(s)
    /\ calls < MaxCalls
    /\ calls' = calls + 1
    /\ checkout' = [checkout EXCEPT ![s].loading = TRUE]
    /\ places' = places \cup
         {[call |-> calls + 1, sess |-> s, uid |-> user[s],
           cartItems |-> checkout[s].cartItems,
           total |-> SumSubtotals(checkout[s].cartItems),
           customer |-> c, pc |-> "order", order |-> 0,
           cartAtCall |-> {[product_id |-> l.product_id, quantity |-> l.quantity] :
                             l \in {x \in cart_items : x.user_id = user[s]}},
           pricesAtCall |-> {[product_id |-> p.id, price |-> p.price] :
                               p \in products},
           failed |-> {}]}
    /\ lastCall' = Call("placeOrder", s, NULL, 0, 0)
    /\ UNCHANGED <<pageVars, dbVars, user, view, shoppingCart, adds, seqAdds, lastReq, appVars>>

\* if (!user) return;
PlaceOrderNoUser(s, c) ==
    /\ view[s] = "checkout"
    /\ ~checkout[s].orderPlaced
    /\ ~checkout[s].loading
    /\ NoUserPlaceOrder(s)
    /\ calls < MaxCalls
    /\ calls' = calls + 1
    /\ lastCall' = Call("placeOrder", s, NULL, 0, 0)
    /\ UNCHANGED <<pageVars, dbVars, uiVars, adds, places, seqAdds, lastReq, appVars>>

handlePlaceOrder(s, c) ==
    \/ PlaceOrderNoUser(s, c)
    \/ PlaceOrderSubmit(s, c)

\* the insert into orders; on orderError the alert, setLoading(false), return.
\* ok = FALSE is a request the store could not serve.
PlaceOrderInsertOrder(r, ok) ==
    LET row == [id |-> r.call, user_id |-> r.uid, total |-> r.total,
                status |-> "pending", customer |-> r.customer]
        orders2 == IF ok THEN OrdersInsert(r.uid, row) ELSE orders
    IN  /\ r.pc = "order"
        /\ orders' = orders2
        /\ IF row \in orders2
           THEN /\ places' = (places \ {r}) \cup
                               {[r EXCEPT !.pc = "items", !.order = row.id]}
                /\ UNCHANGED checkout
           ELSE /\ places' = places \ {r}
                /\ checkout' = [checkout EXCEPT ![r.sess].loading = FALSE]
        /\ UNCHANGED <<pageVars, products, cart_items, order_items, user, view, shoppingCart,
                       adds, calls, seqAdds, lastReq, appVars, lastCall>>

\* await supabase.from('order_items').insert(orderItems): the answer is not read
PlaceOrderInsertItems(r, ok) ==
    LET rows == OrderItemsOf(r)
        items2 == IF ok THEN OrderItemsInsert(r.uid, rows) ELSE order_items
    IN  /\ r.pc = "items"
        /\ order_items' = items2
        /\ places' = (places \ {r}) \cup
             {[r EXCEPT !.pc = "clear",
                        !.failed = IF rows \subseteq items2 THEN @
                                   ELSE @ \cup {"order_items"}]}
        /\ UNCHANGED <<pageVars, products, cart_items, orders, uiVars, adds, calls, seqAdds,
                       lastReq, appVars, lastCall>>

\* the delete of the caller's cart lines (the answer is not read), then
\* setLoading(false), setOrderPlaced(true), the event and the 3 s timer
PlaceOrderClearCart(r, ok) ==
    LET cart2 == IF ok THEN CartDeleteOfUser(r.uid, r.uid) ELSE cart_items
    IN  /\ r.pc = "clear"
        /\ cart_items' = cart2
        /\ places' = places \ {r}
        /\ checkout' = [checkout EXCEPT ![r.sess].loading = FALSE,
                                        ![r.sess].orderPlaced = TRUE]
        /\ shoppingCart' = CartUpdatedEvent(r.sess, shoppingCart)
        /\ countFetches' = UpdateCartCount(r.sess)
        /\ seqAdds' = SeqAfter(cart2)
        /\ UNCHANGED <<pageVars, products, orders, order_items, user, view, adds, calls,
                       lastReq, showAuthModal, cartItemCount, ordersPage, lastCall>>

\* the timer: setOrderPlaced(false), onClose()
OrderPlacedTimeout(s) ==
    /\ checkout[s].orderPlaced
    /\ checkout' = [checkout EXCEPT ![s].orderPlaced = FALSE]
    /\ view' = [view EXCEPT ![s] = IF @ = "checkout" THEN "catalog" ELSE @]
    /\ UNCHANGED <<pageVars, dbVars, user, shoppingCart, adds, places, calls, seqAdds,
                   lastReq, appVars, lastCall>>

\* ------------------------------------------------------- header badge
RECURSIVE SumQuantities(_)
\* data.reduce((sum, item) => sum + item.quantity, 0)
SumQuantities(rows) ==
    IF rows = {} THEN 0
    ELSE LET r == CHOOSE x \in rows : TRUE
         IN  r.quantity + SumQuantities(rows \ {r})

\* updateCartCount: the select of the quantities of the user it was called
\* for is answered, and setCartItemCount
CartCountFetched(s, u) ==
    /\ countFetches[s][u] > 0
    /\ countFetches' = [countFetches EXCEPT ![s][u] = @ - 1]
    /\ cartItemCount' = [cartItemCount EXCEPT
          ![s] = SumQuantities(SelectCartOfUser(u, u))]
    /\ UNCHANGED <<pageVars, dbVars, uiVars, adds, places, calls, seqAdds, lastReq,
                   showAuthModal, ordersPage, lastCall>>

\* ------------------------------------------------------- orders
\* created_at DEFAULT now(): the rows a session inserts are named by the number
\* of the event that inserted them, which grows with time, and the rows that
\* exist at the start carry smaller numbers
CreatedAt(o) == o.id

\* select * from orders where user_id = u
SelectOrdersOfUser(uid, u) ==
    {o \in orders : OrdersSelectUsing(uid, o) /\ o.user_id = u}

RECURSIVE OrderByCreatedAtAsc(_)
OrderByCreatedAtAsc(rows) ==
    IF rows = {} THEN <<>>
    ELSE LET m == CHOOSE o \in rows :
                    \A o2 \in rows : CreatedAt(o) <= CreatedAt(o2)
         IN  <<m>> \o OrderByCreatedAtAsc(rows \ {m})

RECURSIVE OrderByCreatedAtDesc(_)
\* .order('created_at', { ascending: false })
OrderByCreatedAtDesc(rows) ==
    IF rows = {} THEN <<>>
    ELSE LET m == CHOOSE o \in rows :
                    \A o2 \in rows : CreatedAt(o2) <= CreatedAt(o)
         IN  <<m>> \o OrderByCreatedAtDesc(rows \ {m})

\* the rows of an order_items select with product:products(name, image_url):
\* product is null when the line has no product any more
JoinProductNames(rows) ==
    {[id |-> l.id, quantity |-> l.quantity, price |-> l.price,
      product |-> IF l.product_id \in ProductIds THEN l.product_id ELSE NULL] :
        l \in rows}

\* Header's Orders button: showOrders, and the effect calls fetchOrders, which
\* sets loading and sends the select of the orders
OpenOrders(s) ==
    /\ view[s] = "catalog"
    /\ user[s] # NULL
    /\ calls < MaxCalls
    /\ calls' = calls + 1
    /\ view' = [view EXCEPT ![s] = "orders"]
    /\ ordersPage' = [ordersPage EXCEPT
          ![s].loading = TRUE,
          ![s].fetches = @ \cup {[call |-> calls + 1, uid |-> user[s],
                                  pc |-> "orders", ordersData |-> <<>>,
                                  answered |-> {}, items |-> <<>>]}]
    /\ UNCHANGED <<pageVars, dbVars, user, shoppingCart, checkout, adds, places, seqAdds,
                   lastReq, showAuthModal, cartItemCount, countFetches, lastCall>>

CloseOrders(s) ==
    /\ view[s] = "orders"
    /\ calls < MaxCalls
    /\ calls' = calls + 1
    /\ view' = [view EXCEPT ![s] = "catalog"]
    /\ UNCHANGED <<pageVars, dbVars, user, shoppingCart, checkout, adds, places, seqAdds,
                   lastReq, appVars, lastCall>>

\* { ...order, items }
OrdersWithItems(f, items) ==
    [i \in 1..Len(f.ordersData) |->
        [id |-> f.ordersData[i].id, user_id |-> f.ordersData[i].user_id,
         total |-> f.ordersData[i].total, status |-> f.ordersData[i].status,
         customer |-> f.ordersData[i].customer, items |-> items[i]]]

\* fetchOrders: the select of the orders is answered and one select of
\* order_items per order is sent (Promise.all); with no order, setOrders([])
FetchOrdersAnswered(s, f) ==
    LET data == OrderByCreatedAtDesc(SelectOrdersOfUser(f.uid, f.uid))
    IN  /\ f \in ordersPage[s].fetches
        /\ f.pc = "orders"
        /\ IF data = <<>>
           THEN ordersPage' = [ordersPage EXCEPT
                    ![s].orders = <<>>,
                    ![s].loading = FALSE,
                    ![s].fetches = @ \ {f}]
           ELSE ordersPage' = [ordersPage EXCEPT
                    ![s].fetches = (@ \ {f}) \cup
                        {[f EXCEPT !.pc = "items", !.ordersData = data,
                                   !.items = [i \in 1..Len(data) |-> {}]]}]
        /\ UNCHANGED <<pageVars, dbVars, user, view, shoppingCart, checkout, adds, places,
                       calls, seqAdds, lastReq, showAuthModal, cartItemCount,
                       countFetches, lastCall>>

\* the select of the lines of the i-th order is answered; after the last
\* answer setOrders(ordersWithItems) and setLoading(false)
FetchOrderItemsAnswered(s, f, i) ==
    LET items2 == [f.items EXCEPT
                     ![i] = JoinProductNames(
                                SelectOrderItemsOf(f.uid, f.ordersData[i].id))]
    IN  /\ f \in ordersPage[s].fetches
        /\ f.pc = "items"
        /\ i \in (1..Len(f.ordersData)) \ f.answered
        /\ IF f.answered \cup {i} = 1..Len(f.ordersData)
           THEN ordersPage' = [ordersPage EXCEPT
                    ![s].orders = OrdersWithItems(f, items2),
                    ![s].loading = FALSE,
                    ![s].fetches = @ \ {f}]
           ELSE ordersPage' = [ordersPage EXCEPT
                    ![s].fetches = (@ \ {f}) \cup
                        {[f EXCEPT !.items = items2,
                                   !.answered = @ \cup {i}]}]
        /\ UNCHANGED <<pageVars, dbVars, user, view, shoppingCart, checkout, adds, places,
                       calls, seqAdds, lastReq, showAuthModal, cartItemCount,
                       countFetches, lastCall>>

\* ------------------------------------------------------- identity
\* Header's Logout (or the session ending), taken while no request of the
\* session is awaited; App's effect resets the badge
SignOut(s) ==
    /\ user[s] # NULL
    /\ \A a \in adds : a.sess # s
    /\ \A r \in places : r.sess # s
    /\ ~shoppingCart[s].loading
    /\ ~checkout[s].fetching
    /\ ordersPage[s].fetches = {}
    /\ calls < MaxCalls
    /\ calls' = calls + 1
    /\ user' = [user EXCEPT ![s] = NULL]
    /\ cartItemCount' = [cartItemCount EXCEPT ![s] = 0]
    /\ UNCHANGED <<pageVars, dbVars, view, shoppingCart, checkout, adds, places, seqAdds,
                   lastReq, showAuthModal, countFetches, ordersPage, lastCall>>

\* AuthModal's onClose
CloseAuthModal(s) ==
    /\ showAuthModal[s]
    /\ calls < MaxCalls
    /\ calls' = calls + 1
    /\ showAuthModal' = [showAuthModal EXCEPT ![s] = FALSE]
    /\ UNCHANGED <<pageVars, dbVars, uiVars, adds, places, seqAdds, lastReq, cartItemCount,
                   countFetches, ordersPage, lastCall>>

\* ------------------------------------------------------- catalog administration
\* a product's price is set (CHECK price >= 0)
SetProductPrice(pid, price) ==
    /\ calls < MaxCalls
    /\ pid \in ProductIds
    /\ price >= 0
    /\ price # ProductRow(pid).price
    /\ calls' = calls + 1
    /\ products' = {IF p.id = pid THEN [p EXCEPT !.price = price] ELSE p :
                      p \in products}
    /\ UNCHANGED <<pageVars, cart_items, orders, order_items, uiVars, adds, places, seqAdds,
                   lastReq, appVars, lastCall>>

\* order_items.product_id REFERENCES products(id) ON DELETE SET NULL
OrderItemsOnProductDeleteCascade(pid) ==
    {l \in order_items : l.product_id # pid}
OrderItemsOnProductDelete(pid) ==
    {IF l.product_id = pid THEN [l EXCEPT !.product_id = NULL] ELSE l :
        l \in order_items}

\* a product is deleted: cart_items cascade, order_items keep the line with
\* product_id set to null
DeleteProduct(pid) ==
    /\ calls < MaxCalls
    /\ pid \in ProductIds
    /\ calls' = calls + 1
    /\ products' = {p \in products : p.id # pid}
    /\ cart_items' = {r \in cart_items : r.product_id # pid}
    /\ order_items' = OrderItemsOnProductDelete(pid)
    /\ seqAdds' = [k \in Users \X Products |->
                     IF k[2] = pid THEN Tainted ELSE seqAdds[k]]
    /\ UNCHANGED <<pageVars, orders, uiVars, adds, places, lastReq, appVars, lastCall>>

\* ------------------------------------------------------- direct requests
\* Any other client of the store: a signed-in caller sends a statement with its
\* own token and the policies and constraints alone decide.  lastReq records
\* the request and rows, the rows the statement returned or affected.  Rows
\* inserted this way are named by the negated request number.
Request(table, kind, uid, id, rows) ==
    [call |-> lastReq.call + 1, table |-> table, kind |-> kind, uid |-> uid,
     id |-> id, rows |-> rows]

ApiSelectCartItem(uid, id) ==
    /\ lastReq.call < MaxRequests
    /\ lastReq' = Request("cart_items", "select", uid, id, SelectCartById(uid, id))
    /\ UNCHANGED <<pageVars, dbVars, uiVars, adds, places, calls, seqAdds, appVars, lastCall>>

ApiInsertCartItem(uid, owner, pid, q) ==
    LET row == [id |-> 0 - (lastReq.call + 1), user_id |-> owner, product_id |-> pid,
                quantity |-> q]
    IN  /\ lastReq.call < MaxRequests
        /\ cart_items' = CartInsert(uid, row)
        /\ seqAdds' = SeqAfter(CartInsert(uid, row))
        /\ lastReq' = Request("cart_items", "insert", uid, row.id,
                              CartInsert(uid, row) \ cart_items)
        /\ UNCHANGED <<pageVars, products, orders, order_items, uiVars, adds, places, calls, appVars, lastCall>>

ApiUpdateCartItem(uid, id, q) ==
    /\ lastReq.call < MaxRequests
    /\ cart_items' = CartUpdate(uid, id, q)
    /\ seqAdds' = SeqAfter(CartUpdate(uid, id, q))
    /\ lastReq' = Request("cart_items", "update", uid, id,
                          CartUpdate(uid, id, q) \ cart_items)
    /\ UNCHANGED <<pageVars, products, orders, order_items, uiVars, adds, places, calls, appVars, lastCall>>

ApiDeleteCartItem(uid, id) ==
    /\ lastReq.call < MaxRequests
    /\ cart_items' = CartDeleteById(uid, id)
    /\ seqAdds' = SeqAfter(CartDeleteById(uid, id))
    /\ lastReq' = Request("cart_items", "delete", uid, id,
                          cart_items \ CartDeleteById(uid, id))
    /\ UNCHANGED <<pageVars, products, orders, order_items, uiVars, adds, places, calls, appVars, lastCall>>

ApiSelectOrder(uid, id) ==
    /\ lastReq.call < MaxRequests
    /\ lastReq' = Request("orders", "select", uid, id, SelectOrderById(uid, id))
    /\ UNCHANGED <<pageVars, dbVars, uiVars, adds, places, calls, seqAdds, appVars, lastCall>>

ApiInsertOrder(uid, owner, total) ==
    LET row == [id |-> 0 - (lastReq.call + 1), user_id |-> owner, total |-> total,
                status |-> "pending", customer |-> "c1"]
    IN  /\ lastReq.call < MaxRequests
        /\ orders' = OrdersInsert(uid, row)
        /\ lastReq' = Request("orders", "insert", uid, row.id,
                              OrdersInsert(uid, row) \ orders)
        /\ UNCHANGED <<pageVars, products, cart_items, order_items, uiVars, adds, places,
                       calls, seqAdds, appVars, lastCall>>

ApiUpdateOrder(uid, id) ==
    /\ lastReq.call < MaxRequests
    /\ orders' = OrdersUpdateStatus(uid, id, "cancelled")
    /\ lastReq' = Request("orders", "update", uid, id,
                          OrdersUpdateStatus(uid, id, "cancelled") \ orders)
    /\ UNCHANGED <<pageVars, products, cart_items, order_items, uiVars, adds, places, calls,
                   seqAdds, appVars, lastCall>>

\* order_items.order_id is ON DELETE CASCADE
ApiDeleteOrder(uid, id) ==
    /\ lastReq.call < MaxRequests
    /\ orders' = OrdersDeleteById(uid, id)
    /\ order_items' = {l \in order_items :
                         \E o \in OrdersDeleteById(uid, id) : o.id = l.order_id}
    /\ lastReq' = Request("orders", "delete", uid, id,
                          orders \ OrdersDeleteById(uid, id))
    /\ UNCHANGED <<pageVars, products, cart_items, uiVars, adds, places, calls, seqAdds, appVars, lastCall>>

ApiInsertOrderItem(uid, oid, pid, price) ==
    LET rows == {[id |-> <<0 - (lastReq.call + 1), 0>>, order_id |-> oid,
                  product_id |-> pid, quantity |-> 1, price |-> price]}
    IN  /\ lastReq.call < MaxRequests
        /\ order_items' = OrderItemsInsert(uid, rows)
        /\ lastReq' = Request("order_items", "insert", uid, oid,
                              OrderItemsInsert(uid, rows) \ order_items)
        /\ UNCHANGED <<pageVars, products, cart_items, orders, uiVars, adds, places, calls,
                       seqAdds, appVars, lastCall>>

ApiSelectOrderItems(uid, oid) ==
    /\ lastReq.call < MaxRequests
    /\ lastReq' = Request("order_items", "select", uid, oid,
                          SelectOrderItemsOf(uid, oid))
    /\ UNCHANGED <<pageVars, dbVars, uiVars, adds, places, calls, seqAdds, appVars, lastCall>>

\* ------------------------------------------------------- specification
\* the rows of products the catalog has fetched when it is mounted
SeededProducts ==
    {[id |-> "p1", name |-> <<"a">>, description |-> <<"B">>,
      category_id |-> "g1", stock |-> 2],
     [id |-> "p2", name |-> <<"B">>, description |-> <<>>,
      category_id |-> "g2", stock |-> 3]}

NoRequest ==
    [call |-> 0, table |-> "none", kind |-> "none", uid |-> NULL, id |-> 0,
     rows |-> {}]

NoCall ==
    [call |-> 0, op |-> "none", uid |-> NULL, product |-> NULL, id |-> 0,
     quantity |-> 0]

Init ==
    /\ products = {[id |-> "p1", price |-> 2, stock |-> 2],
                   [id |-> "p2", price |-> 3, stock |-> 3]}
    /\ cart_items = {}
    /\ orders = {}
    /\ order_items = {}
    /\ user = [s \in Sessions |-> "u1"]
    /\ view = [s \in Sessions |-> "catalog"]
    /\ shoppingCart = [s \in Sessions |-> [cartItems |-> {}, loading |-> FALSE]]
    /\ checkout = [s \in Sessions |->
                     [cartItems |-> {}, loading |-> FALSE, orderPlaced |-> FALSE,
                      fetching |-> FALSE]]
    /\ adds = {}
    /\ places = {}
    /\ calls = 0
    /\ seqAdds = [k \in Users \X Products |-> 0]
    /\ lastReq = NoRequest
    /\ showAuthModal = [s \in Sessions |-> FALSE]
    /\ cartItemCount = [s \in Sessions |-> 0]
    /\ countFetches = [s \in Sessions |-> [u \in Users |-> 0]]
    /\ ordersPage = [s \in Sessions |->
                       [orders |-> <<>>, loading |-> FALSE, fetches |-> {}]]
    /\ lastCall = NoCall
    /\ catalog = [s \in Sessions |->
                    [products |-> SeededProducts, selectedCategory |-> "all",
                     searchQuery |-> <<>>]]
    /\ selectedProduct = [s \in Sessions |-> NoProduct]
    /\ productDetail = [s \in Sessions |-> [quantity |-> 1]]

Next ==
    \/ \E s \in Sessions, p \in Products : CatalogAddToCart(s, p)
    \/ \E s \in Sessions, p \in Products, n \in 2..MaxDelta : DetailAddToCart(s, p, n)
    \/ \E a \in adds : AddToCartWrite(a)
    \/ \E s \in Sessions : OpenCart(s)
    \/ \E s \in Sessions : CloseCart(s)
    \/ \E s \in Sessions : CartFetched(s)
    \/ \E s \in Sessions : \E item \in shoppingCart[s].cartItems : ClickMinus(s, item)
    \/ \E s \in Sessions : \E item \in shoppingCart[s].cartItems : ClickPlus(s, item)
    \/ \E s \in Sessions : \E item \in shoppingCart[s].cartItems : RemoveItem(s, item)
    \/ \E s \in Sessions : ProceedToCheckout(s)
    \/ \E s \in Sessions : CheckoutFetched(s)
    \/ \E s \in Sessions : CloseCheckout(s)
    \/ \E s \in Sessions, c \in Customers : handlePlaceOrder(s, c)
    \/ \E r \in places, ok \in BOOLEAN : PlaceOrderInsertOrder(r, ok)
    \/ \E r \in places, ok \in BOOLEAN : PlaceOrderInsertItems(r, ok)
    \/ \E r \in places, ok \in BOOLEAN : PlaceOrderClearCart(r, ok)
    \/ \E s \in Sessions : OrderPlacedTimeout(s)
    \/ \E p \in Products, price \in Prices : SetProductPrice(p, price)
    \/ \E p \in Products : DeleteProduct(p)
    \/ \E s \in Sessions : SignOut(s)
    \/ \E s \in Sessions : CloseAuthModal(s)

\* The session of user u1, with the catalog administration.  The select of
\* updateCartCount is left unanswered here (the badge feeds nothing back);
\* SpecBadge answers it.
Spec == Init /\ [][Next]_vars

OrderIds == {o.id : o \in orders}
CartIds == {r.id : r \in cart_items}

\* the store alone, under the statements of any signed-in callers
NextStore ==
    \/ \E uid \in Users, id \in CartIds : ApiSelectCartItem(uid, id)
    \/ \E uid \in Users, owner \in Users, pid \in Products, q \in 0..1 :
          ApiInsertCartItem(uid, owner, pid, q)
    \/ \E uid \in Users, id \in CartIds, q \in 0..MaxQty : ApiUpdateCartItem(uid, id, q)
    \/ \E uid \in Users, id \in CartIds : ApiDeleteCartItem(uid, id)
    \/ \E uid \in Users, id \in OrderIds : ApiSelectOrder(uid, id)
    \/ \E uid \in Users, owner \in Users : ApiInsertOrder(uid, owner, 0)
    \/ \E uid \in Users, id \in OrderIds : ApiUpdateOrder(uid, id)
    \/ \E uid \in Users, id \in OrderIds : ApiDeleteOrder(uid, id)
    \/ \E uid \in Users, oid \in OrderIds \cup {0}, pid \in Products, price \in Prices :
          ApiInsertOrderItem(uid, oid, pid, price)
    \/ \E uid \in Users, oid \in OrderIds : ApiSelectOrderItems(uid, oid)

SpecStore == Init /\ [][NextStore]_vars

\* the session of a returning customer: u1 has placed two orders before and
\* u2 one, and the Orders view lists them
PastOrders ==
    {[id |-> 0 - 3, user_id |-> "u1", total |-> 6, status |-> "pending",
      customer |-> "c1"],
     [id |-> 0 - 2, user_id |-> "u2", total |-> 3, status |-> "pending",
      customer |-> "c1"],
     [id |-> 0 - 1, user_id |-> "u1", total |-> 2, status |-> "pending",
      customer |-> "c1"]}

PastOrderItems ==
    {[id |-> <<0 - 3, 0>>, order_id |-> 0 - 3, product_id |-> "p2",
      quantity |-> 2, price |-> 3],
     [id |-> <<0 - 2, 0>>, order_id |-> 0 - 2, product_id |-> "p2",
      quantity |-> 1, price |-> 3],
     [id |-> <<0 - 1, 0>>, order_id |-> 0 - 1, product_id |-> "p1",
      quantity |-> 1, price |-> 2]}

InitReturning ==
    /\ products = {[id |-> "p1", price |-> 2, stock |-> 2],
                   [id |-> "p2", price |-> 3, stock |-> 3]}
    /\ cart_items = {}
    /\ orders = PastOrders
    /\ order_items = PastOrderItems
    /\ user = [s \in Sessions |-> "u1"]
    /\ view = [s \in Sessions |-> "catalog"]
    /\ shoppingCart = [s \in Sessions |-> [cartItems |-> {}, loading |-> FALSE]]
    /\ checkout = [s \in Sessions |->
                     [cartItems |-> {}, loading |-> FALSE, orderPlaced |-> FALSE,
                      fetching |-> FALSE]]
    /\ adds = {}
    /\ places = {}
    /\ calls = 0
    /\ seqAdds = [k \in Users \X Products |-> 0]
    /\ lastReq = NoRequest
    /\ showAuthModal = [s \in Sessions |-> FALSE]
    /\ cartItemCount = [s \in Sessions |-> 0]
    /\ countFetches = [s \in Sessions |-> [u \in Users |-> 0]]
    /\ ordersPage = [s \in Sessions |->
                       [orders |-> <<>>, loading |-> FALSE, fetches |-> {}]]
    /\ lastCall = NoCall
    /\ catalog = [s \in Sessions |->
                    [products |-> SeededProducts, selectedCategory |-> "all",
                     searchQuery |-> <<>>]]
    /\ selectedProduct = [s \in Sessions |-> NoProduct]
    /\ productDetail = [s \in Sessions |-> [quantity |-> 1]]

NextOrders ==
    \/ Next
    \/ \E s \in Sessions : OpenOrders(s)
    \/ \E s \in Sessions : CloseOrders(s)
    \/ \E s \in Sessions : \E f \in ordersPage[s].fetches : FetchOrdersAnswered(s, f)
    \/ \E s \in Sessions : \E f \in ordersPage[s].fetches :
          \E i \in 1..Len(f.ordersData) : FetchOrderItemsAnswered(s, f, i)

SpecOrders == InitReturning /\ [][NextOrders]_vars

\* the catalog over any two fetched products, with the search box and the
\* category buttons
Texts == {<<"a">>, <<"B">>, <<"a", "B">>}
Categories == {"g1", "g2"}
FetchedProducts ==
    {{[id |-> "p1", name |-> n1, description |-> d1, category_id |-> c1,
       stock |-> 2],
      [id |-> "p2", name |-> n2, description |-> d2, category_id |-> c2,
       stock |-> 3]} :
        n1 \in Texts, n2 \in Texts,
        d1 \in Texts \cup {<<>>, NullText}, d2 \in Texts \cup {<<>>, NullText},
        c1 \in Categories \cup {NULL}, c2 \in Categories \cup {NULL}}

InitCatalog ==
    /\ products = {[id |-> "p1", price |-> 2, stock |-> 2],
                   [id |-> "p2", price |-> 3, stock |-> 3]}
    /\ cart_items = {}
    /\ orders = {}
    /\ order_items = {}
    /\ user = [s \in Sessions |-> "u1"]
    /\ view = [s \in Sessions |-> "catalog"]
    /\ shoppingCart = [s \in Sessions |-> [cartItems |-> {}, loading |-> FALSE]]
    /\ checkout = [s \in Sessions |->
                     [cartItems |-> {}, loading |-> FALSE, orderPlaced |-> FALSE,
                      fetching |-> FALSE]]
    /\ adds = {}
    /\ places = {}
    /\ calls = 0
    /\ seqAdds = [k \in Users \X Products |-> 0]
    /\ lastReq = NoRequest
    /\ showAuthModal = [s \in Sessions |-> FALSE]
    /\ cartItemCount = [s \in Sessions |-> 0]
    /\ countFetches = [s \in Sessions |-> [u \in Users |-> 0]]
    /\ ordersPage = [s \in Sessions |->
                       [orders |-> <<>>, loading |-> FALSE, fetches |-> {}]]
    /\ lastCall = NoCall
    /\ \E fetched \in FetchedProducts :
          catalog = [s \in Sessions |->
                       [products |-> fetched, selectedCategory |-> "all",
                        searchQuery |-> <<>>]]
    /\ selectedProduct = [s \in Sessions |-> NoProduct]
    /\ productDetail = [s \in Sessions |-> [quantity |-> 1]]

NextCatalog ==
    \/ \E s \in Sessions, q \in Strings(MaxTerm) : SetSearchQuery(s, q)
    \/ \E s \in Sessions, c \in Categories \cup {"all"} : SetSelectedCategory(s, c)

SpecCatalog == InitCatalog /\ [][NextCatalog]_vars

\* the session of a customer who has filled the cart and looks at it: the
\* lines are in the store and in the list of the cart view, and nothing is
\* added afterwards; the store serves every request
FilledCarts ==
    {{[id |-> 0 - 1, user_id |-> "u1", product_id |-> "p1", quantity |-> 1]},
     {[id |-> 0 - 1, user_id |-> "u1", product_id |-> "p1", quantity |-> 2],
      [id |-> 0 - 2, user_id |-> "u1", product_id |-> "p2", quantity |-> 1]}}

InitFilled ==
    /\ products = {[id |-> "p1", price |-> 2, stock |-> 2],
                   [id |-> "p2", price |-> 3, stock |-> 3]}
    /\ cart_items \in FilledCarts
    /\ orders = {}
    /\ order_items = {}
    /\ user = [s \in Sessions |-> "u1"]
    /\ view = [s \in Sessions |-> "cart"]
    /\ shoppingCart = [s \in Sessions |->
                         [cartItems |-> JoinProducts(cart_items), loading |-> FALSE]]
    /\ checkout = [s \in Sessions |->
                     [cartItems |-> {}, loading |-> FALSE, orderPlaced |-> FALSE,
                      fetching |-> FALSE]]
    /\ adds = {}
    /\ places = {}
    /\ calls = 0
    /\ seqAdds = [k \in Users \X Products |-> Tainted]
    /\ lastReq = NoRequest
    /\ showAuthModal = [s \in Sessions |-> FALSE]
    /\ cartItemCount = [s \in Sessions |-> SumQuantities(cart_items)]
    /\ countFetches = [s \in Sessions |-> [u \in Users |-> 0]]
    /\ ordersPage = [s \in Sessions |->
                       [orders |-> <<>>, loading |-> FALSE, fetches |-> {}]]
    /\ lastCall = NoCall
    /\ catalog = [s \in Sessions |->
                    [products |-> SeededProducts, selectedCategory |-> "all",
                     searchQuery |-> <<>>]]
    /\ selectedProduct = [s \in Sessions |-> NoProduct]
    /\ productDetail = [s \in Sessions |-> [quantity |-> 1]]

NextCheckout ==
    \/ \E s \in Sessions : OpenCart(s)
    \/ \E s \in Sessions : CloseCart(s)
    \/ \E s \in Sessions : CartFetched(s)
    \/ \E s \in Sessions : ProceedToCheckout(s)
    \/ \E s \in Sessions : CheckoutFetched(s)
    \/ \E s \in Sessions : CloseCheckout(s)
    \/ \E s \in Sessions, c \in Customers : handlePlaceOrder(s, c)
    \/ \E r \in places : PlaceOrderInsertOrder(r, TRUE)
    \/ \E r \in places : PlaceOrderInsertItems(r, TRUE)
    \/ \E r \in places : PlaceOrderClearCart(r, TRUE)
    \/ \E s \in Sessions : OrderPlacedTimeout(s)
    \/ \E s \in Sessions : SignOut(s)

SpecCheckout == InitFilled /\ [][NextCheckout]_vars

\* the catalog with the product detail view
NextDetail ==
    \/ \E s \in Sessions : \E product \in catalog[s].products : OpenDetail(s, product)
    \/ \E s \in Sessions : CloseDetail(s)
    \/ \E s \in Sessions : DetailMinus(s)
    \/ \E s \in Sessions : DetailPlus(s)
    \/ \E s \in Sessions, v \in (0 - 1)..(MaxQty + 1) : DetailInput(s, v)
    \/ \E s \in Sessions : DetailViewAddToCart(s)
    \/ \E a \in adds : AddToCartWrite(a)
    \/ \E s \in Sessions : SignOut(s)
    \/ \E s \in Sessions : CloseAuthModal(s)

SpecDetail == Init /\ [][NextDetail]_vars

\* the cart mutations of the session with the header badge: every
\* updateCartCount is answered
NextBadge ==
    \/ \E s \in Sessions, p \in Products : CatalogAddToCart(s, p)
    \/ \E a \in adds : AddToCartWrite(a)
    \/ \E s \in Sessions : OpenCart(s)
    \/ \E s \in Sessions : CartFetched(s)
    \/ \E s \in Sessions : \E item \in shoppingCart[s].cartItems : ClickMinus(s, item)
    \/ \E s \in Sessions : \E item \in shoppingCart[s].cartItems : ClickPlus(s, item)
    \/ \E s \in Sessions : \E item \in shoppingCart[s].cartItems : RemoveItem(s, item)
    \/ \E s \in Sessions : ProceedToCheckout(s)
    \/ \E s \in Sessions : CheckoutFetched(s)
    \/ \E s \in Sessions, c \in Customers : handlePlaceOrder(s, c)
    \/ \E r \in places, ok \in BOOLEAN : PlaceOrderInsertOrder(r, ok)
    \/ \E r \in places, ok \in BOOLEAN : PlaceOrderInsertItems(r, ok)
    \/ \E r \in places, ok \in BOOLEAN : PlaceOrderClearCart(r, ok)
    \/ \E s \in Sessions : OrderPlacedTimeout(s)
    \/ \E s \in Sessions : SignOut(s)
    \/ \E s \in Sessions : CloseAuthModal(s)
    \/ \E s \in Sessions, u \in Users : CartCountFetched(s, u)

SpecBadge == Init /\ [][NextBadge]_vars

\* ------------------------------------------------------- properties
Keys == Users \X Products

\* handlePlaceOrder invocation r reports success in this step: it leaves its
\* last await, sets orderPlaced and is over
ReportsSuccess(r) ==
    r \in places /\ r.pc = "clear" /\ \A r2 \in places' : r2.call # r.call
\* invocation r is over in this step, with the alert or with success
Completes(r) == r \in places /\ \A r2 \in places' : r2.call # r.call

\* C1: starting with no cart line for (u, p), after addToCart calls on (u, p)
\* that ran one after the other, with no other operation on that line, there
\* is exactly one cart line for (u, p) and its quantity is the sum of the
\* quantities added (seqAdds).
C1_SequentialAddsSum ==
    \A k \in Keys :
        (seqAdds[k] > 0 /\ AddsInFlight(k) = {}) =>
            \E r \in cart_items :
                LineOf(cart_items, k) = {r} /\ r.quantity = seqAdds[k]

\* at least two calls have been summed: no single call adds more than MaxDelta
C1_Witness ==
    \E k \in Keys : seqAdds[k] > MaxDelta /\ AddsInFlight(k) = {}

\* C2: in every reachable state there is at most one cart line per
\* (user, product) pair.
C2_OneLinePerUserProduct ==
    \A r1 \in cart_items, r2 \in cart_items :
        (r1.user_id = r2.user_id /\ r1.product_id = r2.product_id) => r1 = r2

\* an add that read no line is about to insert although another add has
\* inserted the line meanwhile
C2_Witness ==
    \E a \in adds :
        /\ a.existing = {}
        /\ LineOf(cart_items, <<a.uid, a.product_id>>) # {}

\* C3: when placeOrder has completed, the total of the order it created is
\* the sum of quantity * price over the order's lines.
C3_TotalIsSumOfLines ==
    [][\A r \in places :
         ReportsSuccess(r) =>
            \A o \in orders' :
                o.id = r.order =>
                    o.total = SumSubtotals({l \in order_items' : l.order_id = o.id})]_vars

\* C4: when placeOrder succeeds, the lines of the created order correspond one
\* to one to the cart lines the caller has in the store when placeOrder is
\* called: as many lines, with the same products and quantities.
C4_LinesMatchCartAtCall ==
    [][\A r \in places :
         ReportsSuccess(r) =>
            LET lines == {l \in order_items' : l.order_id = r.order}
            IN  /\ Cardinality(lines) = Cardinality(r.cartAtCall)
                /\ {[product_id |-> l.product_id, quantity |-> l.quantity] :
                      l \in lines} = r.cartAtCall]_vars

\* C5: when placeOrder reports success, no cart line of the caller remains in
\* the store.
C5_CartEmptyAfterSuccess ==
    [][\A r \in places :
         ReportsSuccess(r) => \A row \in cart_items' : row.user_id # r.uid]_vars

\* C6: whenever placeOrder is over, either the order exists with all its lines
\* and the caller's cart is cleared, or there is no order, no order line and
\* the cart is as it was.
C6_AllOrNothing ==
    [][\A r \in places :
         Completes(r) =>
            \/ /\ \E o \in orders' : o.id = r.call
               /\ \A i \in OrderItemsOf(r) : \E l \in order_items' : l.id = i.id
               /\ \A row \in cart_items' : row.user_id # r.uid
            \/ /\ \A o \in orders' : o.id # r.call
               /\ \A l \in order_items' : l.order_id # r.call
               /\ cart_items' = cart_items]_vars

\* C7: placeOrder called while the caller has no cart line in the store is
\* rejected and creates no order row.
C7_EmptyCartRejected ==
    [][\A r \in places :
         (r.pc = "order" /\ r.cartAtCall = {}) =>
            \A o \in orders' : o.id # r.call]_vars

\* C8: if the order insert, the order_items insert or the cart delete of
\* placeOrder fails, placeOrder does not report success.
C8_NoSuccessAfterFailure ==
    [][\A r \in places :
         ReportsSuccess(r) =>
            /\ r.failed = {}
            /\ \A row \in cart_items' : row.user_id # r.uid]_vars

\* C9: a select, update or delete on cart_items or orders sent by caller A
\* returns no row owned by another user and leaves every row owned by another
\* user as it was, whatever row identifier A names.
C9_OwnerIsolation ==
    [][(lastReq'.call # lastReq.call
          /\ lastReq'.table \in {"cart_items", "orders"}
          /\ lastReq'.kind \in {"select", "update", "delete"}) =>
            /\ \A row \in lastReq'.rows : row.user_id = lastReq'.uid
            /\ \A row \in cart_items : row.user_id # lastReq'.uid => row \in cart_items'
            /\ \A o \in orders : o.user_id # lastReq'.uid => o \in orders']_vars

\* caller A has named the cart line, or the order, of another user in an
\* update or a delete, and the row is still there
C9_Witness ==
    /\ lastReq.kind \in {"update", "delete"}
    /\ lastReq.rows = {}
    /\ \/ /\ lastReq.table = "cart_items"
          /\ \E row \in cart_items : row.id = lastReq.id /\ row.user_id # lastReq.uid
       \/ /\ lastReq.table = "orders"
          /\ \E o \in orders : o.id = lastReq.id /\ o.user_id # lastReq.uid

\* C10: every order line references an existing order; an insert of an order
\* line that references an order the caller does not own is rejected, and a
\* select of order lines returns only lines of the caller's orders.
C10_OrderLinesFollowOrder ==
    [][/\ \A l \in order_items' : \E o \in orders' : o.id = l.order_id
       /\ (lastReq'.call # lastReq.call /\ lastReq'.table = "order_items") =>
            /\ \A l \in lastReq'.rows :
                 \E o \in orders : o.id = l.order_id /\ o.user_id = lastReq'.uid
            /\ (lastReq'.kind = "insert"
                  /\ ~\E o \in orders : o.id = lastReq'.id /\ o.user_id = lastReq'.uid)
                 => order_items' = order_items]_vars

\* an insert that referenced another user's order was sent and rejected, and
\* that order has a line of its owner's
C10_Witness ==
    /\ lastReq.table = "order_items"
    /\ lastReq.kind = "insert"
    /\ lastReq.rows = {}
    /\ \E o \in orders :
         /\ o.id = lastReq.id
         /\ o.user_id # lastReq.uid
         /\ \E l \in order_items : l.order_id = o.id

\* the quantity of the (user, product) line of a cart, 0 with no line
QuantityOf(cart, k) ==
    IF LineOf(cart, k) = {} THEN 0
    ELSE (CHOOSE r \in LineOf(cart, k) : TRUE).quantity

\* C11: no increment is lost when two addToCart calls of the same user on the
\* same product interleave: the write of an add that raced with another add
\* on its line leaves the line's quantity larger by its own delta, so that
\* after both the quantity is the one before the calls plus both deltas.
C11_NoLostIncrement ==
    [][\A b \in adds :
         (b.raced /\ \A b2 \in adds' : b2.call # b.call) =>
            QuantityOf(cart_items', <<b.uid, b.product_id>>) =
                QuantityOf(cart_items, <<b.uid, b.product_id>>) + b.quantity]_vars

\* C12: addToCart called with no signed-in user sends no select and no write
\* of cart lines, dispatches no cart-updated event (no refetch of the cart
\* view, no badge refresh) and opens the sign-in prompt.
C12_AddToCartNeedsUser ==
    [][(lastCall'.call # lastCall.call
          /\ lastCall'.op = "addToCart"
          /\ lastCall'.uid = NULL) =>
            /\ cart_items' = cart_items
            /\ adds' = adds
            /\ shoppingCart' = shoppingCart
            /\ countFetches' = countFetches
            /\ \E s \in Sessions : user[s] = NULL /\ showAuthModal'[s]]_vars

\* the add button was clicked after signing out with a line in the cart, and
\* the prompt is open
C12_Witness ==
    /\ lastCall.op = "addToCart"
    /\ lastCall.uid = NULL
    /\ cart_items # {}
    /\ \E s \in Sessions : showAuthModal[s]

\* C13: placeOrder called with no signed-in user returns before any write: in
\* that step no order and no order line is created, no cart line is deleted
\* and no request of the handler is awaited.
C13_PlaceOrderNeedsUser ==
    [][(lastCall'.call # lastCall.call
          /\ lastCall'.op = "placeOrder"
          /\ lastCall'.uid = NULL) =>
            /\ orders' = orders
            /\ order_items' = order_items
            /\ cart_items' = cart_items
            /\ places' = places]_vars

\* the checkout form, loaded with the lines of the cart, was submitted after
\* signing out
C13_Witness ==
    /\ lastCall.op = "placeOrder"
    /\ lastCall.uid = NULL
    /\ cart_items # {}
    /\ \E s \in Sessions : user[s] = NULL /\ checkout[s].cartItems # {}

\* C14: the unit price written on each order line is the price the product
\* has in the store when placeOrder runs (at the call, or at the write of the
\* lines), also when the price changed after the checkout view read the cart.
C14_PriceAtOrderTime ==
    [][\A r \in places :
         r.pc = "items" =>
            \A l \in order_items' \ order_items :
                l.order_id = r.order =>
                    \/ \E q \in r.pricesAtCall :
                          q.product_id = l.product_id /\ q.price = l.price
                    \/ \E p \in products :
                          p.id = l.product_id /\ p.price = l.price]_vars

\* the placeOrder that creates order o is over (or o was placed earlier)
Placed(o) == \A r \in places : r.call # o.id

\* C15: once placeOrder has completed, no later step changes or deletes the
\* order it created (owner, total, status, customer) or that order's lines:
\* every line stays with its quantity and price, and no line is added.
C15_OrdersImmutable ==
    [][\A o \in orders :
         Placed(o) =>
            /\ o \in orders'
            /\ \A l \in order_items :
                 l.order_id = o.id =>
                    \E l2 \in order_items' :
                        /\ l2.id = l.id
                        /\ l2.order_id = o.id
                        /\ l2.quantity = l.quantity
                        /\ l2.price = l.price
            /\ \A l2 \in order_items' :
                 l2.order_id = o.id => \E l \in order_items : l.id = l2.id]_vars

\* another placeOrder of the owner has completed with its lines after the
\* earlier orders, which are all still there
C15_Witness ==
    /\ PastOrders \subseteq orders
    /\ \E o \in orders :
         /\ o.id > 0
         /\ o.user_id = "u1"
         /\ Placed(o)
         /\ \E l \in order_items : l.order_id = o.id

\* C16: updateQuantity called with newQuantity < 1 is a no-op: it sends no
\* write (so no refetch follows) and the targeted line and every other cart
\* line are unchanged.
C16_QuantityBelowOneIsNoOp ==
    [][(lastCall'.call # lastCall.call
          /\ lastCall'.op = "updateQuantity"
          /\ lastCall'.quantity < 1) =>
            /\ cart_items' = cart_items
            /\ shoppingCart' = shoppingCart]_vars

\* the minus button of a line of quantity 1 was clicked, and the line is in
\* the store with another line beside it
C16_Witness ==
    /\ lastCall.op = "updateQuantity"
    /\ lastCall.quantity < 1
    /\ \E r \in cart_items : r.id = lastCall.id /\ r.quantity = 1
    /\ \E r \in cart_items : r.id # lastCall.id

\* C17: removeLine is idempotent: a call of removeItem by the signed-in
\* owner leaves no line with the named id, and any call leaves every other
\* line as it was; on a line that is already gone it changes nothing and the
\* handler goes on as usual (no error), and the same delete sent again would
\* leave the store as the first left it.
C17_RemoveIsIdempotent ==
    [][(lastCall'.call # lastCall.call /\ lastCall'.op = "removeItem") =>
            /\ lastCall'.uid # NULL => \A r \in cart_items' : r.id # lastCall'.id
            /\ \A r \in cart_items : r.id # lastCall'.id => r \in cart_items'
            /\ cart_items' \subseteq cart_items
            /\ CartDeleteById(lastCall.uid, lastCall.id)' = cart_items'
            /\ \E s \in Sessions : shoppingCart' = FetchCartItems(s, shoppingCart)]_vars

\* removeItem was just called on a line of the rendered list that the store
\* had already lost (its product was deleted after the list was read), while
\* the cart holds another line
C17_Witness ==
    /\ lastCall.op = "removeItem"
    /\ lastCall.uid # NULL
    /\ lastCall.call = calls
    /\ cart_items # {}
    /\ \E s \in Sessions : \E item \in shoppingCart[s].cartItems :
          item.id = lastCall.id /\ item.product_id \notin ProductIds

\* C18: every successful cart mutation (addToCart, updateQuantity, removeItem,
\* the cart clear of placeOrder) is followed by the cart-updated event, so
\* that once no request is awaited the header badge of a signed-in session
\* shows the sum of the quantities of the user's cart lines in the store.
C18_BadgeShowsCartQuantity ==
    \A s \in Sessions :
        (/\ user[s] # NULL
         /\ \A u \in Users : countFetches[s][u] = 0
         /\ \A a \in adds : a.sess # s
         /\ \A r \in places : r.sess # s) =>
            cartItemCount[s] =
                SumQuantities({r \in cart_items : r.user_id = user[s]})

\* the orders of a listing are in descending order of creation
IsDescending(seq) ==
    \A i \in 1..Len(seq), j \in 1..Len(seq) :
        i < j => CreatedAt(seq[i]) > CreatedAt(seq[j])

\* the annotation items holds exactly the lines that reference order oid
LinesExact(items, oid) ==
    {[id |-> x.id, quantity |-> x.quantity, price |-> x.price] : x \in items} =
    {[id |-> l.id, quantity |-> l.quantity, price |-> l.price] :
        l \in {y \in order_items : y.order_id = oid}}

\* C19: listOrders(u) returns exactly the orders owned by u, newest first,
\* each annotated with exactly the order lines that reference it: the answer
\* of the orders select holds all and only u's orders in descending order of
\* creation, the answer of each lines select holds all and only the lines of
\* its order, and the list that is set is made of these answers.
C19_ListOrdersExact ==
    [][\A s \in Sessions : \A f \in ordersPage[s].fetches :
         LET own == {o \in orders : o.user_id = f.uid}
             after == {f2 \in ordersPage'[s].fetches : f2.call = f.call}
             n == Len(f.ordersData)
             result == ordersPage'[s].orders
         IN  \/ f \in after
             \/ /\ f.pc = "orders"
                /\ IF own = {}
                   THEN after = {} /\ result = <<>>
                   ELSE \E f2 \in after :
                          /\ f2.pc = "items"
                          /\ Len(f2.ordersData) = Cardinality(own)
                          /\ {f2.ordersData[i] : i \in 1..Len(f2.ordersData)} = own
                          /\ IsDescending(f2.ordersData)
             \/ /\ f.pc = "items"
                /\ \E i \in (1..n) \ f.answered :
                      \/ \E f2 \in after :
                            /\ f2.ordersData = f.ordersData
                            /\ f2.answered = f.answered \cup {i}
                            /\ LinesExact(f2.items[i], f.ordersData[i].id)
                            /\ \A j \in f.answered : f2.items[j] = f.items[j]
                      \/ /\ after = {}
                         /\ f.answered \cup {i} = 1..n
                         /\ Len(result) = n
                         /\ \A j \in 1..n :
                              /\ result[j].id = f.ordersData[j].id
                              /\ result[j].user_id = f.uid
                              /\ result[j].total = f.ordersData[j].total
                              /\ result[j].status = f.ordersData[j].status
                         /\ LinesExact(result[i].items, f.ordersData[i].id)
                         /\ \A j \in f.answered :
                              result[j].items = f.items[j]]_vars

\* the Orders view shows u1's three orders, the one placed in this session
\* first, each with its lines, while the store holds an order of u2
C19_Witness ==
    \E s \in Sessions :
        /\ ~ordersPage[s].loading
        /\ Len(ordersPage[s].orders) = 3
        /\ ordersPage[s].orders[1].id > 0
        /\ \A i \in 1..3 : ordersPage[s].orders[i].items # {}
        /\ \E o \in orders : o.user_id # user[s]

\* C20: deleting a product deletes no history: every order line that
\* referenced the product exists afterwards with its order, quantity and
\* price unchanged and with an empty product reference.
C20_ProductDeletionKeepsLines ==
    [][\A pid \in ProductIds :
         pid \notin ProductIds' =>
            \A l \in order_items :
                l.product_id = pid =>
                    \E l2 \in order_items' :
                        /\ l2.id = l.id
                        /\ l2.order_id = l.order_id
                        /\ l2.quantity = l.quantity
                        /\ l2.price = l.price
                        /\ l2.product_id = NULL]_vars

\* a product with order lines was deleted: its line is in the store with no
\* product, and the Orders view lists the line with empty display fields
C20_Witness ==
    /\ \E l \in order_items : l.product_id = NULL
    /\ \E s \in Sessions : \E i \in 1..Len(ordersPage[s].orders) :
          \E x \in ordersPage[s].orders[i].items : x.product = NULL

\* the search term occurs in the text, letter case aside
SameLetter(c, d) ==
    {c, d} \in {{"a"}, {"A"}, {"b"}, {"B"}, {"a", "A"}, {"b", "B"}}
CaseInsensitiveSubstring(term, text) ==
    /\ text # NullText
    /\ \E i \in 0..(Len(text) - Len(term)) :
          \A j \in 1..Len(term) : SameLetter(text[i + j], term[j])

C22_ClearDeletesOnlyOrderedLines ==
    [][\A r \in places :
         (/\ r.pc = "clear"
          /\ r.failed = {}
          /\ r.cartItems # {}
          /\ \A r2 \in places' : r2.call # r.call) =>
            \A row \in cart_items \ cart_items' :
                \E l \in order_items' :
                    /\ l.order_id = r.order
                    /\ l.product_id = row.product_id
                    /\ l.quantity = row.quantity]_vars

\* the orders that carry lines
OrdersWithLines == {o \in orders : \E l \in order_items : l.order_id = o.id}

\* C23: a cart's contents are ordered at most once: for a user who fills the
\* cart once and then submits placeOrder any number of times, adding nothing,
\* at most one order carrying lines is created.
C23_OrderedAtMostOnce == Cardinality(OrdersWithLines) <= 1

\* C24: for any sequence of opening products in the detail view, changing the
\* quantity selector, adding to cart and closing, the quantity that the
\* detail view passes to addToCart is at least 1 and at most the stock of the
\* product it displays.
C24_DetailQuantityWithinStock ==
    [][(lastCall'.call # lastCall.call /\ lastCall'.op = "addToCart") =>
          \A s \in Sessions :
              selectedProduct[s] # NoProduct =>
                  /\ lastCall'.product = selectedProduct[s].id
                  /\ 1 <= lastCall'.quantity
                  /\ lastCall'.quantity <= selectedProduct[s].stock]_vars

====
